---------------------------- MODULE Spec2Model ----------------------------
(***************************************************************************)
(* Image-generation orchestration of PastForward: generateDecadeImage and  *)
(* its helpers (callGeminiWithRetry, processGeminiResponse, extractDecade, *)
(* getFallbackPrompt).                                                     *)
(*                                                                         *)
(* The repository holds the service in two revisions:                      *)
(*   "services"  src/services/geminiService.ts (credential resolved by     *)
(*               callGeminiWithRetry, after the input format check)        *)
(*   "part_000"  src/unnamed/part_000 (credential tested on entry of       *)
(*               generateDecadeImage, before the input format check)       *)
(* Both are modelled; the variable rev says which one runs.                *)
(*                                                                         *)
(* JavaScript strings are sequences of one-character strings, so that the  *)
(* regular expressions, String.includes and toLowerCase are computed on    *)
(* the characters.  An async function runs without interruption up to its  *)
(* next await, so one action is one such run of one call.                  *)
(***************************************************************************)
EXTENDS Integers, Sequences, FiniteSets

VARIABLES
    rev,      \* which revision of the service is deployed
    env,      \* process.env.API_KEY
    service,  \* the behaviour of the remote model in this run: "any" or "small"
    call      \* per call of generateDecadeImage: its activation record

vars == <<rev, env, service, call>>

---------------------------------------------------------------------------
(* JavaScript values *)

\* undefined / null, distinct from every string
Undefined == << "undefined" >>

\* JavaScript truthiness of a string-or-undefined value
Truthy(v) == v # Undefined /\ v # <<>>

UpperCase ==
    <<"A", "B", "C", "D", "E", "F", "G", "H", "I", "J", "K", "L", "M",
      "N", "O", "P", "Q", "R", "S", "T", "U", "V", "W", "X", "Y", "Z">>

LowerCase ==
    <<"a", "b", "c", "d", "e", "f", "g", "h", "i", "j", "k", "l", "m",
      "n", "o", "p", "q", "r", "s", "t", "u", "v", "w", "x", "y", "z">>

Digits == {"0", "1", "2", "3", "4", "5", "6", "7", "8", "9"}

\* the class \w of a JavaScript regular expression
WordChars ==
    {UpperCase[i] : i \in 1..26} \cup {LowerCase[i] : i \in 1..26} \cup Digits \cup {"_"}

\* the characters the class . of a regular expression does not match
LineTerminators == {"\n", "\r"}

LowerChar(ch) ==
    IF \E i \in 1..26 : UpperCase[i] = ch
    THEN LowerCase[CHOOSE i \in 1..26 : UpperCase[i] = ch]
    ELSE ch

\* String.prototype.toLowerCase
toLowerCase(s) == [i \in 1..Len(s) |-> LowerChar(s[i])]

\* s has sub at position i (1-based)
HasAt(s, sub, i) ==
    /\ i >= 1
    /\ i + Len(sub) - 1 <= Len(s)
    /\ \A j \in 1..Len(sub) : s[i + j - 1] = sub[j]

\* String.prototype.includes
includes(s, sub) == \E i \in 1..(Len(s) + 1) : HasAt(s, sub, i)

---------------------------------------------------------------------------
(* String literals of the source *)

DataImagePrefix ==
    <<"d", "a", "t", "a", ":", "i", "m", "a", "g", "e", "/">>

DataPrefix ==
    <<"d", "a", "t", "a", ":">>

Base64Marker ==
    <<";", "b", "a", "s", "e", "6", "4", ",">>

FallbackHead ==
    <<"R", "e", "i", "m", "a", "g", "i", "n", "e", " ", "t", "h", "e", " ", "p", "e", "r",
    "s", "o", "n", " ", "i", "n", " ", "t", "h", "i", "s", " ", "p", "h", "o", "t", "o",
    " ", "a", "s", " ", "i", "f", " ", "t", "h", "e", "y", " ", "w", "e", "r", "e", " ",
    "i", "n", " ", "t", "h", "e", " ">>

FallbackTailServices ==
    <<".", " ", "F", "o", "c", "u", "s", " ", "o", "n", " ", "c", "l", "o", "t", "h", "i",
    "n", "g", " ", "a", "n", "d", " ", "h", "a", "i", "r", "s", "t", "y", "l", "e", ".",
    " ", "E", "n", "s", "u", "r", "e", " ", "i", "t", " ", "l", "o", "o", "k", "s", " ",
    "l", "i", "k", "e", " ", "a", "n", " ", "a", "u", "t", "h", "e", "n", "t", "i", "c",
    " ", "v", "i", "n", "t", "a", "g", "e", " ", "p", "h", "o", "t", "o", "g", "r", "a",
    "p", "h", ".">>

FallbackTailPart ==
    <<".", " ", "F", "o", "c", "u", "s", " ", "o", "n", " ", "t", "h", "e", " ", "c", "l",
    "o", "t", "h", "i", "n", "g", ",", " ", "h", "a", "i", "r", "s", "t", "y", "l", "e",
    ",", " ", "a", "n", "d", " ", "t", "h", "e", " ", "p", "h", "o", "t", "o", "g", "r",
    "a", "p", "h", "i", "c", " ", "s", "t", "y", "l", "e", " ", "o", "f", " ", "t", "h",
    "a", "t", " ", "e", "r", "a", ".", " ", "E", "n", "s", "u", "r", "e", " ", "t", "h",
    "e", " ", "r", "e", "s", "u", "l", "t", " ", "i", "s", " ", "a", " ", "c", "l", "e",
    "a", "r", ",", " ", "p", "h", "o", "t", "o", "r", "e", "a", "l", "i", "s", "t", "i",
    "c", " ", "i", "m", "a", "g", "e", ".">>

TextOnlyMessageServices ==
    <<"T", "h", "e", " ", "A", "I", " ", "r", "e", "t", "u", "r", "n", "e", "d", " ", "a",
    " ", "t", "e", "x", "t", " ", "r", "e", "s", "p", "o", "n", "s", "e", " ", "i", "n",
    "s", "t", "e", "a", "d", " ", "o", "f", " ", "a", "n", " ", "i", "m", "a", "g", "e",
    ".">>

TextOnlyMessagePart ==
    <<"T", "h", "e", " ", "A", "I", " ", "r", "e", "t", "u", "r", "n", "e", "d", " ", "a",
    " ", "t", "e", "x", "t", " ", "r", "e", "s", "p", "o", "n", "s", "e", " ", "i", "n",
    "s", "t", "e", "a", "d", " ", "o", "f", " ", "a", "n", " ", "i", "m", "a", "g", "e",
    ".", " ", "T", "h", "i", "s", " ", "m", "i", "g", "h", "t", " ", "b", "e", " ", "d",
    "u", "e", " ", "t", "o", " ", "s", "a", "f", "e", "t", "y", " ", "f", "i", "l", "t",
    "e", "r", "s", ".">>

MissingKeyMessageServices ==
    <<"A", "P", "I", "_", "K", "E", "Y", " ", "i", "s", " ", "m", "i", "s", "s", "i", "n",
    "g", ".", " ", "P", "l", "e", "a", "s", "e", " ", "r", "e", "n", "a", "m", "e", " ",
    "y", "o", "u", "r", " ", "V", "e", "r", "c", "e", "l", " ", "e", "n", "v", "i", "r",
    "o", "n", "m", "e", "n", "t", " ", "v", "a", "r", "i", "a", "b", "l", "e", " ", "f",
    "r", "o", "m", " ", "'", "G", "O", "O", "G", "L", "E", "_", "A", "P", "I", "_", "K",
    "E", "Y", "'", " ", "t", "o", " ", "'", "A", "P", "I", "_", "K", "E", "Y", "'", " ",
    "a", "n", "d", " ", "r", "e", "-", "d", "e", "p", "l", "o", "y", ".">>

MissingKeyMessagePart ==
    <<"A", "P", "I", " ", "K", "e", "y", " ", "i", "s", " ", "m", "i", "s", "s", "i", "n",
    "g", ".", " ", "P", "l", "e", "a", "s", "e", " ", "c", "h", "e", "c", "k", " ", "y",
    "o", "u", "r", " ", "e", "n", "v", "i", "r", "o", "n", "m", "e", "n", "t", " ", "c",
    "o", "n", "f", "i", "g", "u", "r", "a", "t", "i", "o", "n", ".">>

InvalidFormatMessageServices ==
    <<"I", "n", "v", "a", "l", "i", "d", " ", "i", "m", "a", "g", "e", " ", "f", "o", "r",
    "m", "a", "t", ".", " ", "P", "l", "e", "a", "s", "e", " ", "t", "r", "y", " ", "r",
    "e", "-", "u", "p", "l", "o", "a", "d", "i", "n", "g", ".">>

InvalidFormatMessagePart ==
    <<"I", "n", "v", "a", "l", "i", "d", " ", "i", "m", "a", "g", "e", " ", "d", "a", "t",
    "a", " ", "f", "o", "r", "m", "a", "t", ".">>

MaxRetriesMessage ==
    <<"M", "a", "x", "i", "m", "u", "m", " ", "r", "e", "t", "r", "i", "e", "s", " ", "r",
    "e", "a", "c", "h", "e", "d", " ", "f", "o", "r", " ", "G", "e", "m", "i", "n", "i",
    " ", "A", "P", "I", ".">>

Marker500 ==
    <<"5", "0", "0">>

MarkerInternal ==
    <<"I", "N", "T", "E", "R", "N", "A", "L">>

Marker429 ==
    <<"4", "2", "9">>

MarkerSafety ==
    <<"s", "a", "f", "e", "t", "y">>

MarkerTextResponse ==
    <<"t", "e", "x", "t", " ", "r", "e", "s", "p", "o", "n", "s", "e">>

---------------------------------------------------------------------------
(* Program constants *)

maxRetries == 2

initialDelay == 1500

Revisions == {"services", "part_000"}

---------------------------------------------------------------------------
(* Pure functions of the service *)

\* names a fixed decade
getFallbackPromptFixedDecade(r, decade) ==
    FallbackHead \o <<"1", "9", "5", "0", "s">> \o
        (IF r = "services" THEN FallbackTailServices ELSE FallbackTailPart)

getFallbackPrompt(r, decade) ==
    FallbackHead \o decade \o
        (IF r = "services" THEN FallbackTailServices ELSE FallbackTailPart)

\* four digits, whatever follows them
DecadeAtAnyYear(prompt, i) ==
    /\ i + 4 <= Len(prompt)
    /\ \A j \in 0..3 : prompt[i + j] \in Digits

\* prompt.match(/(\d{4}s)/): the leftmost four digits followed by "s"
DecadeAt(prompt, i) ==
    /\ i + 4 <= Len(prompt)
    /\ \A j \in 0..3 : prompt[i + j] \in Digits
    /\ prompt[i + 4] = "s"

extractDecade(prompt) ==
    IF \E i \in 1..Len(prompt) : DecadeAt(prompt, i)
    THEN LET i == CHOOSE k \in 1..Len(prompt) :
                      /\ DecadeAt(prompt, k)
                      /\ \A m \in 1..(k - 1) : ~DecadeAt(prompt, m)
         IN  SubSeq(prompt, i, i + 4)
    ELSE Undefined

\* length of the longest run of \w characters of s that starts at position i
RECURSIVE WordRun(_, _)
WordRun(s, i) ==
    IF i <= Len(s) /\ s[i] \in WordChars THEN 1 + WordRun(s, i + 1) ELSE 0

\* the null of a failed match, and of an image part not built yet
NoMatch == [mimeType |-> Undefined, data |-> Undefined]

\* the first group captures the subtype only: /^data:image\/(\w+);base64,(.*)$/
MatchDataUrlSubtypeOnly(s) ==
    LET k     == WordRun(s, Len(DataImagePrefix) + 1)
        after == Len(DataImagePrefix) + k + 1
        rest  == SubSeq(s, after + Len(Base64Marker), Len(s))
    IN  IF /\ HasAt(s, DataImagePrefix, 1)
           /\ k >= 1
           /\ HasAt(s, Base64Marker, after)
           /\ \A j \in 1..Len(rest) : rest[j] \notin LineTerminators
        THEN [mimeType |-> SubSeq(s, Len(DataImagePrefix) + 1, after - 1), data |-> rest]
        ELSE NoMatch

\* imageDataUrl.match(/^data:(image\/\w+);base64,(.*)$/): the two groups, or
\* null.  ";" is no \w character, so \w+ can only end where its run ends.
MatchDataUrl(s) ==
    LET k     == WordRun(s, Len(DataImagePrefix) + 1)
        after == Len(DataImagePrefix) + k + 1
        rest  == SubSeq(s, after + Len(Base64Marker), Len(s))
    IN  IF /\ HasAt(s, DataImagePrefix, 1)
           /\ k >= 1
           /\ HasAt(s, Base64Marker, after)
           /\ \A j \in 1..Len(rest) : rest[j] \notin LineTerminators
        THEN [mimeType |-> SubSeq(s, Len(DataPrefix) + 1, after - 1), data |-> rest]
        ELSE NoMatch

\* parts.find(part => part.inlineData) on response.candidates?.[0]?.content?.parts
HasInline(part) == "inlineData" \in DOMAIN part

\* looks at the first part only
FirstInlineIndexFirstPartOnly(parts) ==
    IF Len(parts) >= 1 /\ HasInline(parts[1]) THEN 1 ELSE 0

FirstInlineIndex(parts) ==
    IF \E i \in 1..Len(parts) : HasInline(parts[i])
    THEN CHOOSE i \in 1..Len(parts) :
             /\ HasInline(parts[i])
             /\ \A j \in 1..(i - 1) : ~HasInline(parts[j])
    ELSE 0

FirstCandidateParts(response) ==
    IF Len(response.candidates) >= 1 THEN response.candidates[1].parts ELSE <<>>

TextOnlyMessage(r) ==
    IF r = "services" THEN TextOnlyMessageServices ELSE TextOnlyMessagePart

\* the value returned, or the Error thrown
processGeminiResponse(r, response) ==
    LET parts == FirstCandidateParts(response)
        i     == FirstInlineIndex(parts)
    IN  IF i # 0
        THEN [returns |-> DataPrefix \o parts[i].inlineData.mimeType
                              \o Base64Marker \o parts[i].inlineData.data]
        ELSE [throws |-> IF Truthy(response.text) THEN response.text
                         ELSE TextOnlyMessage(r)]

\* every error is retried
isRetriableAlways(errorMessage) == TRUE

isRetriable(errorMessage) ==
    \/ includes(errorMessage, Marker500)
    \/ includes(errorMessage, MarkerInternal)
    \/ includes(errorMessage, Marker429)

\* the test of the catch block of generateDecadeImage
LooksBlocked(errorMessage) ==
    \E lower \in {toLowerCase(errorMessage)} :
        \/ includes(lower, MarkerSafety)
        \/ includes(lower, MarkerTextResponse)

---------------------------------------------------------------------------
(* Inputs of a call and outcomes of the remote model *)

\* calls of generateDecadeImage that may be in flight together
NumCalls == 2

Calls == 1..NumCalls

ValidPng == <<"d", "a", "t", "a", ":", "i", "m", "a", "g", "e", "/", "p", "n", "g", ";", "b", "a", "s", "e", "6", "4", ",", "Q", "U", "J", "D">>

ValidEmptyPayload == <<"d", "a", "t", "a", ":", "i", "m", "a", "g", "e", "/", "j", "p", "e", "g", ";", "b", "a", "s", "e", "6", "4", ",">>

SvgXml == <<"d", "a", "t", "a", ":", "i", "m", "a", "g", "e", "/", "s", "v", "g", "+", "x", "m", "l", ";", "b", "a", "s", "e", "6", "4", ",", "Q", "Q", "=", "=">>

TrailingNewline == <<"d", "a", "t", "a", ":", "i", "m", "a", "g", "e", "/", "p", "n", "g", ";", "b", "a", "s", "e", "6", "4", ",", "Q", "Q", "\n">>

ImageDataUrls ==
    { ValidPng, ValidEmptyPayload, SvgXml, TrailingNewline,
      <<"d", "a", "t", "a", ":", "t", "e", "x", "t", "/", "p", "l", "a", "i", "n", ";", "b", "a", "s", "e", "6", "4", ",", "Q", "Q", "=", "=">>, <<"i", "m", "a", "g", "e", "/", "p", "n", "g", ";", "b", "a", "s", "e", "6", "4", ",", "Q", "U", "J", "D">>,
      <<"d", "a", "t", "a", ":", "i", "m", "a", "g", "e", "/", "p", "n", "g", ",", "Q", "U", "J", "D">>, <<"d", "a", "t", "a", ":", "i", "m", "a", "g", "e", "/", ";", "b", "a", "s", "e", "6", "4", ",", "Q", "Q">>, <<>> }

Prompt1970s == <<"Y", "o", "u", " ", "i", "n", " ", "t", "h", "e", " ", "1", "9", "7", "0", "s">>

PromptTwoDecades == <<"1", "9", "8", "0", "5", " ", "o", "r", " ", "1", "9", "5", "0", "s", ",", " ", "n", "o", "t", " ", "1", "9", "9", "0", "s">>

PromptNoDecade == <<"A", " ", "r", "e", "t", "r", "o", " ", "1", "9", "7", "0", " ", "l", "o", "o", "k">>

Prompts == {Prompt1970s, PromptTwoDecades, PromptNoDecade}

ApiKeys == {Undefined, <<>>, <<"k">>}

InlinePart(mime, data) == [inlineData |-> [mimeType |-> mime, data |-> data]]

TextPart(t) == [text |-> t]

Reply(parts, text) == [candidates |-> << [parts |-> parts] >>, text |-> text]

ReplyImage == Reply(<< InlinePart(<<"i", "m", "a", "g", "e", "/", "p", "n", "g">>, <<"U", "E", "5", "H">>) >>, Undefined)

ReplyTextThenImage ==
    Reply(<< TextPart(<<"S", "a", "f", "e", "t", "y", " ", "o", "k">>), InlinePart(<<"i", "m", "a", "g", "e", "/", "j", "p", "e", "g">>, <<"S", "l", "B", "H">>) >>, <<"S", "a", "f", "e", "t", "y", " ", "o", "k">>)

ReplyTwoImages ==
    Reply(<< InlinePart(<<"i", "m", "a", "g", "e", "/", "w", "e", "b", "p">>, <<"V", "0", "V", "C">>), InlinePart(<<"i", "m", "a", "g", "e", "/", "p", "n", "g">>, <<"U", "E", "5", "H">>) >>,
          Undefined)

ReplySafety == Reply(<< TextPart(<<"B", "l", "o", "c", "k", "e", "d", ":", " ", "S", "A", "F", "E", "T", "Y">>) >>, <<"B", "l", "o", "c", "k", "e", "d", ":", " ", "S", "A", "F", "E", "T", "Y">>)

ReplyPlainText == Reply(<< TextPart(<<"I", " ", "c", "a", "n", "n", "o", "t", " ", "d", "o", " ", "t", "h", "a", "t">>) >>, <<"I", " ", "c", "a", "n", "n", "o", "t", " ", "d", "o", " ", "t", "h", "a", "t">>)

ReplyNoText == Reply(<<>>, Undefined)

ReplyNoCandidates == [candidates |-> <<>>, text |-> Undefined]

Replies ==
    { ReplyImage, ReplyTextThenImage, ReplyTwoImages, ReplySafety, ReplyPlainText,
      ReplyNoText, ReplyNoCandidates }

\* errors the remote call rejects with; class is the kind of failure it stands for
RemoteError(message, class) == [message |-> message, class |-> class]

Error500 == RemoteError(<<"5", "0", "0", " ", "I", "N", "T", "E", "R", "N", "A", "L">>, "Transient")

Error503 == RemoteError(<<"5", "0", "3", " ", "U", "N", "A", "V", "A", "I", "L", "A", "B", "L", "E">>, "Transient")

ErrorQuota == RemoteError(<<"4", "2", "9", " ", "R", "E", "S", "O", "U", "R", "C", "E", "_", "E", "X", "H", "A", "U", "S", "T", "E", "D">>, "Quota")

ErrorBilling == RemoteError(<<"4", "0", "0", " ", "F", "A", "I", "L", "E", "D", "_", "P", "R", "E", "C", "O", "N", "D", "I", "T", "I", "O", "N">>, "Billing")

ErrorNotFound == RemoteError(<<"4", "0", "4", " ", "N", "O", "T", "_", "F", "O", "U", "N", "D">>, "NotFound")

ErrorAuth == RemoteError(<<"4", "0", "3", " ", "P", "E", "R", "M", "I", "S", "S", "I", "O", "N", "_", "D", "E", "N", "I", "E", "D">>, "Auth")

ErrorSafetyText == RemoteError(<<"4", "0", "0", " ", "S", "A", "F", "E", "T", "Y">>, "Unclassified")

ErrorNetwork == RemoteError(<<"F", "a", "i", "l", "e", "d", " ", "t", "o", " ", "f", "e", "t", "c", "h">>, "Unclassified")

RemoteErrors ==
    { Error500, Error503, ErrorQuota, ErrorBilling, ErrorNotFound, ErrorAuth,
      ErrorSafetyText, ErrorNetwork }

Outcome(kind, value) == [kind |-> kind, value |-> value]

RemoteOutcomes ==
    {Outcome("reply", r) : r \in Replies} \cup {Outcome("error", e) : e \in RemoteErrors}

\* the remote model of a run with concurrent calls
SmallService ==
    { Outcome("reply", ReplyImage), Outcome("reply", ReplySafety),
      Outcome("error", Error500), Outcome("error", ErrorAuth) }

\* what the remote model can answer, by the name of its behaviour
Answers(behaviour) == IF behaviour = "any" THEN RemoteOutcomes ELSE SmallService

---------------------------------------------------------------------------
(* Errors thrown by the service.  cycle and attempt say where the error was *)
(* created, which tells two errors with the same message apart.            *)

Thrown(message, kind, s) ==
    [message |-> message, kind |-> kind, cycle |-> s.cycle, attempt |-> s.attempt]

InvalidFormatMessage(r) ==
    IF r = "services" THEN InvalidFormatMessageServices ELSE InvalidFormatMessagePart

MissingKeyMessage(r) ==
    IF r = "services" THEN MissingKeyMessageServices ELSE MissingKeyMessagePart

---------------------------------------------------------------------------
(* One call of generateDecadeImage.  The operators below take the call's   *)
(* activation record s and give the record at its next await or at its end. *)

NotStarted(url, prompt) ==
    [ pc           |-> "start",
      imageDataUrl |-> url,
      prompt       |-> prompt,
      imagePart    |-> NoMatch,
      cycle        |-> "none",
      textPart     |-> Undefined,
      apiKey       |-> Undefined,
      attempt      |-> 0,
      result       |-> [kind |-> "pending"],
      \* history of the call, read by no operation
      invocations  |-> <<>>,
      requests     |-> <<>>,
      delays       |-> <<>>,
      received     |-> <<>> ]

\* a call that is never made
Idle == [NotStarted(<<>>, <<>>) EXCEPT !.pc = "idle"]

\* the promise of generateDecadeImage rejects / resolves
Reject(s, error) ==
    [s EXCEPT !.pc = "settled", !.result = [kind |-> "rejected", error |-> error]]

Resolve(s, value) ==
    [s EXCEPT !.pc = "settled", !.result = [kind |-> "resolved", value |-> value]]

\* the try block of the retry loop: a new client, then generateContent
\* ("services" passes the key resolved on entry, "part_000" reads the environment)
IssueAttempt(s, r, key) ==
    [s EXCEPT !.pc = "awaitRemote",
              !.requests = Append(@, [ cycle     |-> s.cycle,
                                       attempt   |-> s.attempt,
                                       apiKey    |-> IF r = "services" THEN s.apiKey ELSE key,
                                       imagePart |-> s.imagePart,
                                       text      |-> s.textPart ])]

\* callGeminiWithRetry is entered with textPart = text
EnterRetry(s, r, key, cycle, text) ==
    [s EXCEPT !.cycle = cycle,
              !.textPart = text,
              !.attempt = 1,
              !.apiKey = IF r = "services" THEN key ELSE Undefined,
              !.invocations = Append(@, cycle)]

\* no test of the key
RetryRefusesKeyNever(r, key) == FALSE

\* if (!apiKey) throw ... on entry of callGeminiWithRetry
RetryRefusesKey(r, key) == r = "services" /\ ~Truthy(key)

\* if (!process.env.API_KEY) throw ... on entry of generateDecadeImage
EntryRefusesKey(r, key) == r = "part_000" /\ ~Truthy(key)

\* the fallback call of the catch block; what it throws leaves generateDecadeImage
FallbackCycle(s, r, key, decade) ==
    LET s1 == EnterRetry(s, r, key, "fallback", getFallbackPrompt(r, decade))
    IN  IF RetryRefusesKey(r, key)
        THEN Reject(s1, Thrown(MissingKeyMessage(r), "MissingCredential", s1))
        ELSE IssueAttempt(s1, r, key)

\* the catch block of generateDecadeImage
Catch(s, r, key, error) ==
    LET decade == extractDecade(s.prompt)
    IN  IF LooksBlocked(error.message) /\ decade # Undefined
        THEN FallbackCycle(s, r, key, decade)
        ELSE Reject(s, error)

\* the failure of the fallback cycle is handled like the failure of the primary
PropagateAlwaysCaught(s, r, key, error) == Catch(s, r, key, error)

\* the failure of the fallback cycle is swallowed
PropagateSwallowed(s, r, key, error) ==
    IF s.cycle = "primary" THEN Catch(s, r, key, error) ELSE Resolve(s, <<>>)

\* an error leaves callGeminiWithRetry or processGeminiResponse: inside the try
\* block (primary cycle) it is caught, inside the catch block it propagates
Propagate(s, r, key, error) ==
    IF s.cycle = "primary" THEN Catch(s, r, key, error) ELSE Reject(s, error)

\* generateDecadeImage from its entry to its first await
generateDecadeImage(s, r, key) ==
    LET match == MatchDataUrl(s.imageDataUrl)
        s1    == [s EXCEPT !.imagePart = match]
        s2    == EnterRetry(s1, r, key, "primary", s.prompt)
    IN  IF EntryRefusesKey(r, key)
        THEN Reject(s, Thrown(MissingKeyMessage(r), "MissingCredential", s))
        ELSE IF match = NoMatch
        THEN Reject(s, Thrown(InvalidFormatMessage(r), "InvalidInputFormat", s))
        ELSE IF RetryRefusesKey(r, key)
        THEN Catch(s2, r, key, Thrown(MissingKeyMessage(r), "MissingCredential", s2))
        ELSE IssueAttempt(s2, r, key)

\* a reply without image is retried like a failed attempt
OnReplyRetriesRejected(s, r, key, response) ==
    LET out == processGeminiResponse(r, response)
        s1  == [s EXCEPT
                  !.received = Append(@, [cycle |-> s.cycle, attempt |-> s.attempt,
                                          outcome |-> Outcome("reply", response)])]
    IN  IF "returns" \in DOMAIN out
        THEN Resolve(s1, out.returns)
        ELSE IF s.attempt < maxRetries
        THEN [s1 EXCEPT !.pc = "backoff",
                        !.delays = Append(@, initialDelay * s.attempt)]
        ELSE Propagate(s1, r, key, Thrown(out.throws, "NoImage", s1))

\* the awaited generateContent resolved: callGeminiWithRetry returns the reply
\* and processGeminiResponse interprets it
OnReply(s, r, key, response) ==
    LET out == processGeminiResponse(r, response)
        s1  == [s EXCEPT
                  !.received = Append(@, [cycle |-> s.cycle, attempt |-> s.attempt,
                                          outcome |-> Outcome("reply", response)])]
    IN  IF "returns" \in DOMAIN out
        THEN Resolve(s1, out.returns)
        ELSE Propagate(s1, r, key, Thrown(out.throws, "NoImage", s1))

\* the test of the catch block reads attempt <= maxRetries
OnErrorRetriesLastAttempt(s, r, key, e) ==
    LET s1 == [s EXCEPT
                  !.received = Append(@, [cycle |-> s.cycle, attempt |-> s.attempt,
                                          outcome |-> Outcome("error", e)])]
    IN  IF isRetriable(e.message) /\ s.attempt <= maxRetries
        THEN [s1 EXCEPT !.pc = "backoff",
                        !.delays = Append(@, initialDelay * s.attempt)]
        ELSE Propagate(s1, r, key, Thrown(e.message, e.class, s1))

\* the awaited generateContent rejected: the catch block of the retry loop
OnError(s, r, key, e) ==
    LET s1 == [s EXCEPT
                  !.received = Append(@, [cycle |-> s.cycle, attempt |-> s.attempt,
                                          outcome |-> Outcome("error", e)])]
    IN  IF isRetriable(e.message) /\ s.attempt < maxRetries
        THEN [s1 EXCEPT !.pc = "backoff",
                        !.delays = Append(@, initialDelay * s.attempt)]
        ELSE Propagate(s1, r, key, Thrown(e.message, e.class, s1))

\* the promise of the delay is never resolved
OnTimerNeverResolved(s, r, key) == s

\* the attempt counter lives outside the function and is shared by the calls
OnTimerSharedCounter(s, r, key) ==
    LET top == CHOOSE n \in {call[c].attempt : c \in DOMAIN call} :
                   \A c \in DOMAIN call : call[c].attempt <= n
        s1  == [s EXCEPT !.attempt = top + 1]
    IN  IF s1.attempt <= maxRetries
        THEN [s1 EXCEPT !.pc = "awaitRemote",
                        !.requests = Append(@, [ cycle     |-> s1.cycle,
                                                 attempt   |-> s1.attempt,
                                                 apiKey    |-> IF r = "services"
                                                               THEN s1.apiKey ELSE key,
                                                 imagePart |-> s1.imagePart,
                                                 text      |-> s1.textPart ])]
        ELSE [s1 EXCEPT !.pc = "settled",
                        !.result = [kind |-> "rejected",
                                    error |-> Thrown(MaxRetriesMessage, "MaxRetries", s1)]]

\* the timer fired: continue, attempt++, and the loop test
OnTimer(s, r, key) ==
    LET s1 == [s EXCEPT !.attempt = @ + 1]
    IN  IF s1.attempt <= maxRetries
        THEN IssueAttempt(s1, r, key)
        ELSE Propagate(s1, r, key, Thrown(MaxRetriesMessage, "MaxRetries", s1))

---------------------------------------------------------------------------
(* The state machine.  No action of Next changes rev, env or service:      *)
(* nothing in the repository writes process.env, and the remote model is   *)
(* given.  EnvChanges is the environment replacing the credential.         *)

\* one call, any input, either revision, any state of the credential
Init ==
    /\ rev \in Revisions
    /\ env \in ApiKeys
    /\ service = "any"
    /\ \E url \in ImageDataUrls, prompt \in Prompts :
           call = [c \in Calls |-> IF c = 1 THEN NotStarted(url, prompt) ELSE Idle]

\* every call made at once, with a credential
InitConcurrent ==
    /\ rev \in Revisions
    /\ env = <<"k">>
    /\ service = "small"
    /\ \E p \in [Calls -> {Prompt1970s, PromptNoDecade}] :
           call = [c \in Calls |-> NotStarted(ValidPng, p[c])]

Invoke(c) ==
    /\ call[c].pc = "start"
    /\ call' = [call EXCEPT ![c] = generateDecadeImage(call[c], rev, env)]
    /\ UNCHANGED <<rev, env, service>>

RemoteReplies(c) ==
    /\ call[c].pc = "awaitRemote"
    /\ \E o \in Answers(service) :
           /\ o.kind = "reply"
           /\ call' = [call EXCEPT ![c] = OnReply(call[c], rev, env, o.value)]
    /\ UNCHANGED <<rev, env, service>>

RemoteFails(c) ==
    /\ call[c].pc = "awaitRemote"
    /\ \E o \in Answers(service) :
           /\ o.kind = "error"
           /\ call' = [call EXCEPT ![c] = OnError(call[c], rev, env, o.value)]
    /\ UNCHANGED <<rev, env, service>>

BackoffElapses(c) ==
    /\ call[c].pc = "backoff"
    /\ call' = [call EXCEPT ![c] = OnTimer(call[c], rev, env)]
    /\ UNCHANGED <<rev, env, service>>

Next ==
    \E c \in Calls :
        \/ Invoke(c)
        \/ RemoteReplies(c)
        \/ RemoteFails(c)
        \/ BackoffElapses(c)

Spec == Init /\ [][Next]_vars

SpecConcurrent == InitConcurrent /\ [][Next]_vars

\* the event loop runs a call that was made and fires a timer that was set;
\* every remote call returns, with a reply or with an error
Fairness ==
    \A c \in Calls :
        /\ WF_vars(Invoke(c))
        /\ WF_vars(BackoffElapses(c))
        /\ WF_vars(RemoteReplies(c) \/ RemoteFails(c))

SpecFair == Init /\ [][Next]_vars /\ Fairness

---------------------------------------------------------------------------
(* Vocabulary of the properties *)

Started(c) == call[c].pc \notin {"idle", "start"}

Settled(c) == call[c].pc = "settled"

Rejected(c) == Settled(c) /\ call[c].result.kind = "rejected"

Resolved(c) == Settled(c) /\ call[c].result.kind = "resolved"

\* s reads data:image/<subtype>;base64,<payload> with a subtype of one character
\* or more, whatever the characters of subtype and payload
DataUrlShaped(s) ==
    /\ HasAt(s, DataImagePrefix, 1)
    /\ \E i \in (Len(DataImagePrefix) + 2)..Len(s) : HasAt(s, Base64Marker, i)

\* a decade token, four digits and the letter s, stands at position i of prompt
TokenAt(prompt, i) ==
    /\ i + 4 <= Len(prompt)
    /\ SubSeq(prompt, i, i + 3) \in [1..4 -> Digits]
    /\ prompt[i + 4] = "s"

HasDecadeToken(prompt) == \E i \in 1..Len(prompt) : TokenAt(prompt, i)

\* the entries of a history that belong to one cycle
OfCycle(h, cycle) == SelectSeq(h, LAMBDA x : x.cycle = cycle)

IsReply(x) == x.outcome.kind = "reply"

IsError(x) == x.outcome.kind = "error"

\* a reply with an inline binary part in its first candidate
HasImage(response) ==
    /\ Len(response.candidates) >= 1
    /\ \E i \in 1..Len(response.candidates[1].parts) :
           "inlineData" \in DOMAIN response.candidates[1].parts[i]

\* the data URL of the first inline part of the first candidate
ImageUrlOf(response) ==
    LET parts == response.candidates[1].parts
        i     == CHOOSE k \in 1..Len(parts) :
                     /\ "inlineData" \in DOMAIN parts[k]
                     /\ \A j \in 1..(k - 1) : "inlineData" \notin DOMAIN parts[j]
    IN  DataPrefix \o parts[i].inlineData.mimeType \o Base64Marker
            \o parts[i].inlineData.data

\* a reply without image whose text names safety, in any letter case
IsSafetyText(response) ==
    /\ ~HasImage(response)
    /\ Truthy(response.text)
    /\ includes(toLowerCase(response.text), MarkerSafety)

\* the reply the primary cycle received, if it received one
PrimaryGotReply(c, response) ==
    \E k \in 1..Len(call[c].received) :
        /\ call[c].received[k].cycle = "primary"
        /\ call[c].received[k].outcome = Outcome("reply", response)

LastReceived(c) == call[c].received[Len(call[c].received)]

---------------------------------------------------------------------------
(* C1 *)

\* C1: a call whose input does not read data:<image-mime>;base64,<payload>
\* is rejected with the InvalidInputFormat error and has made no remote call,
\* whatever the state of the credential.
C1_InvalidInputFailsFirst ==
    \A c \in Calls :
        (Started(c) /\ ~DataUrlShaped(call[c].imageDataUrl)) =>
            /\ Rejected(c)
            /\ call[c].result.error.kind = "InvalidInputFormat"
            /\ call[c].requests = <<>>

---------------------------------------------------------------------------
(* C2 *)

\* every outcome the call received is a server-side (5xx) failure
OnlyTransientFailures(c) ==
    /\ call[c].received # <<>>
    /\ \A k \in 1..Len(call[c].received) :
           /\ IsError(call[c].received[k])
           /\ call[c].received[k].outcome.value.class = "Transient"

\* C2: when every attempt fails with a 500-class (transient) error, the
\* retry executor has made exactly 2 attempts with one delay of 1500 ms
\* between them when it gives up, and the failure of the last attempt is
\* what the caller gets.
C2_TransientFailureRetriedOnce ==
    \A c \in Calls :
        (Settled(c) /\ OnlyTransientFailures(c)) =>
            /\ Len(call[c].requests) = 2
            /\ call[c].delays = << 1500 >>
            /\ Rejected(c)
            /\ call[c].result.error.kind = "Transient"
            /\ call[c].result.error.attempt = 2

---------------------------------------------------------------------------
(* C3 *)

TerminalClasses == {"Quota", "Billing", "NotFound", "Auth"}

\* C3: when attempt 1 fails with a terminal error (quota, billing, entity
\* not found, authorization), that is the only attempt: no delay, no second
\* attempt, and the terminal error is what the caller gets.
C3_TerminalFailureNotRetried ==
    \A c \in Calls :
        ( /\ call[c].received # <<>>
          /\ IsError(call[c].received[1])
          /\ call[c].received[1].outcome.value.class \in TerminalClasses ) =>
            /\ Len(call[c].requests) = 1
            /\ call[c].delays = <<>>
            /\ Rejected(c)
            /\ call[c].result.error.kind = call[c].received[1].outcome.value.class
            /\ call[c].result.error.message = call[c].received[1].outcome.value.message

---------------------------------------------------------------------------
(* C4 *)

\* C4: a reply whose first candidate has a part with an inline binary
\* payload is interpreted as "data:<mimeType>;base64,<data>" of the first
\* such part, whatever text parts come before it and whatever the text of the
\* reply is: the call resolves with exactly that string.
C4_FirstInlinePartWins ==
    \A c \in Calls :
        ( /\ call[c].received # <<>>
          /\ IsReply(LastReceived(c))
          /\ HasImage(LastReceived(c).outcome.value) ) =>
            /\ Resolved(c)
            /\ call[c].result.value = ImageUrlOf(LastReceived(c).outcome.value)

\* a reply with a text part before its image, and a text that names safety
C4_Witness ==
    /\ call[1].received # <<>>
    /\ LastReceived(1).outcome = Outcome("reply", ReplyTextThenImage)
    /\ Resolved(1)
    /\ call[1].result.value = <<"d", "a", "t", "a", ":", "i", "m", "a", "g", "e", "/", "j", "p", "e", "g", ";", "b", "a", "s", "e", "6", "4", ",", "S", "l", "B", "H">>

---------------------------------------------------------------------------
(* C5 *)

\* the text of the fallback template for the decade token at position i of
\* the prompt
TemplateFor(prompt, i) ==
    FallbackHead \o SubSeq(prompt, i, i + 4) \o
        (IF rev = "services" THEN FallbackTailServices ELSE FallbackTailPart)

\* C5: when the primary reply has no image and a text naming safety, and
\* the prompt holds a decade token, a remote call follows whose prompt is
\* the fallback template with a decade token of the prompt; and when the
\* fallback cycle receives a reply with an image, the call resolves with
\* the data URL of that image.
C5_SafetyRejectionFallsBack ==
    \A c \in Calls : \A response \in Replies :
        ( /\ PrimaryGotReply(c, response)
          /\ IsSafetyText(response)
          /\ HasDecadeToken(call[c].prompt) ) =>
            /\ \E k \in 1..Len(call[c].requests) :
                   /\ k > 1
                   /\ call[c].requests[k - 1].cycle = "primary"
                   /\ call[c].requests[k].cycle = "fallback"
                   /\ call[c].requests[k].attempt = 1
                   /\ \E i \in 1..Len(call[c].prompt) :
                          /\ TokenAt(call[c].prompt, i)
                          /\ call[c].requests[k].text = TemplateFor(call[c].prompt, i)
            /\ ( /\ LastReceived(c).cycle = "fallback"
                 /\ IsReply(LastReceived(c))
                 /\ HasImage(LastReceived(c).outcome.value) ) =>
                   /\ Resolved(c)
                   /\ call[c].result.value = ImageUrlOf(LastReceived(c).outcome.value)

\* safety text for a 1970s prompt, then an image from the fallback call
C5_Witness ==
    /\ call[1].prompt = Prompt1970s
    /\ PrimaryGotReply(1, ReplySafety)
    /\ LastReceived(1).cycle = "fallback"
    /\ LastReceived(1).outcome = Outcome("reply", ReplyImage)
    /\ includes(call[1].requests[Len(call[1].requests)].text, <<"i", "n", " ", "t", "h", "e", " ", "1", "9", "7", "0", "s", ".">>)
    /\ Resolved(1)
    /\ call[1].result.value = <<"d", "a", "t", "a", ":", "i", "m", "a", "g", "e", "/", "p", "n", "g", ";", "b", "a", "s", "e", "6", "4", ",", "U", "E", "5", "H">>

---------------------------------------------------------------------------
(* C6 *)

\* C6: when the primary reply is a safety-text rejection and the prompt
\* holds no decade token, no remote call follows the primary cycle and the
\* call rejects with the rejection of the primary reply.
C6_NoDecadeNoFallback ==
    \A c \in Calls : \A response \in Replies :
        ( /\ PrimaryGotReply(c, response)
          /\ IsSafetyText(response)
          /\ ~HasDecadeToken(call[c].prompt) ) =>
            /\ \A k \in 1..Len(call[c].requests) : call[c].requests[k].cycle = "primary"
            /\ call[c].invocations = << "primary" >>
            /\ LastReceived(c).outcome = Outcome("reply", response)
            /\ Rejected(c)
            /\ call[c].result.error.kind = "NoImage"
            /\ call[c].result.error.cycle = "primary"
            /\ call[c].result.error.message = response.text

\* safety text for a prompt with a year but no decade
C6_Witness ==
    /\ call[1].prompt = PromptNoDecade
    /\ PrimaryGotReply(1, ReplySafety)
    /\ Rejected(1)
    /\ call[1].result.error.message = <<"B", "l", "o", "c", "k", "e", "d", ":", " ", "S", "A", "F", "E", "T", "Y">>

---------------------------------------------------------------------------
(* C7 *)

\* C7: with no credential in the environment a call makes no remote call
\* and starts no fallback cycle; it is rejected, and with the
\* MissingCredential error whenever its input passes the format check.
C7_MissingCredentialFailsFast ==
    \A c \in Calls :
        (Started(c) /\ ~Truthy(env)) =>
            /\ call[c].requests = <<>>
            /\ \A k \in 1..Len(call[c].invocations) : call[c].invocations[k] # "fallback"
            /\ Rejected(c)
            /\ (MatchDataUrl(call[c].imageDataUrl) # NoMatch) =>
                   /\ call[c].result.error.kind = "MissingCredential"
                   /\ call[c].result.error.message = MissingKeyMessage(rev)

\* the retry executor was entered and refused to start
C7_Witness ==
    /\ env = Undefined
    /\ call[1].invocations = << "primary" >>
    /\ call[1].prompt = Prompt1970s
    /\ Rejected(1)
    /\ call[1].result.error.kind = "MissingCredential"

---------------------------------------------------------------------------
(* C8 *)

\* C8: a call enters the retry executor at most twice, first for the
\* primary and then at most once for the fallback cycle; it makes at most
\* 2 * maxRetries remote calls, at most maxRetries in a cycle, and waits at
\* most once in a cycle; and once settled it does nothing more.
C8_AtMostOneFallback ==
    \A c \in Calls :
        /\ call[c].invocations \in { <<>>, << "primary" >>, << "primary", "fallback" >> }
        /\ Len(call[c].requests) <= 2 * maxRetries
        /\ Len(OfCycle(call[c].requests, "primary")) <= maxRetries
        /\ Len(OfCycle(call[c].requests, "fallback")) <= maxRetries
        /\ Len(call[c].delays) <= 2 * (maxRetries - 1)
        /\ Settled(c) => ~ENABLED (Invoke(c) \/ RemoteReplies(c) \/ RemoteFails(c)
                                      \/ BackoffElapses(c))

\* both cycles used all their attempts, and the fallback cycle ended with a
\* safety text that the primary cycle would have recovered from
C8_Witness ==
    /\ call[1].invocations = << "primary", "fallback" >>
    /\ Len(call[1].requests) = 2 * maxRetries
    /\ Len(call[1].delays) = 2
    /\ LastReceived(1).outcome = Outcome("reply", ReplySafety)
    /\ Rejected(1)

---------------------------------------------------------------------------
(* C9 *)

\* the message of the failure that an outcome without image stands for
FailureMessage(x) ==
    IF IsError(x) THEN x.outcome.value.message
    ELSE IF Truthy(x.outcome.value.text) THEN x.outcome.value.text
    ELSE TextOnlyMessage(rev)

\* the fallback cycle has failed: its current attempt got an outcome that is
\* no image, and no retry of it is pending
FallbackFailed(c) ==
    /\ call[c].received # <<>>
    /\ LastReceived(c).cycle = "fallback"
    /\ LastReceived(c).attempt = call[c].attempt
    /\ call[c].pc # "backoff"
    /\ ~(IsReply(LastReceived(c)) /\ HasImage(LastReceived(c).outcome.value))

\* C9: when the fallback cycle fails, by a remote error, by running out of
\* attempts or by a reply without image, the call is settled and rejected,
\* with the error of that failure of the fallback cycle.
C9_FallbackFailureSurfaces ==
    \A c \in Calls :
        FallbackFailed(c) =>
            /\ Rejected(c)
            /\ call[c].result.error.cycle = "fallback"
            /\ call[c].result.error.attempt = LastReceived(c).attempt
            /\ call[c].result.error.message = FailureMessage(LastReceived(c))

\* the fallback cycle ran out of attempts on a server error
C9_Witness ==
    /\ PrimaryGotReply(1, ReplySafety)
    /\ LastReceived(1).cycle = "fallback"
    /\ LastReceived(1).attempt = maxRetries
    /\ LastReceived(1).outcome = Outcome("error", Error500)
    /\ Rejected(1)
    /\ call[1].result.error.message = <<"5", "0", "0", " ", "I", "N", "T", "E", "R", "N", "A", "L">>

---------------------------------------------------------------------------
(* C10 *)

\* the call run alone on the outcomes in h, from the k-th on
RECURSIVE Replay(_, _, _)
Replay(s, h, k) ==
    IF k > Len(h) THEN s
    ELSE LET s0 == IF s.pc = "backoff" THEN OnTimer(s, rev, env) ELSE s
             s1 == IF h[k].outcome.kind = "reply"
                   THEN OnReply(s0, rev, env, h[k].outcome.value)
                   ELSE OnError(s0, rev, env, h[k].outcome.value)
         IN  Replay(s1, h, k + 1)

\* call c run alone, with its own inputs, on the outcomes it has received
Alone(c) ==
    Replay(generateDecadeImage(NotStarted(call[c].imageDataUrl, call[c].prompt), rev, env),
           call[c].received, 1)

\* C10: with calls running together, in every interleaving of their steps
\* each call is where it would be had it run alone on the remote outcomes it
\* received: the same requests in the same order, the same delays, the same
\* result.
C10_CallsDoNotInterfere ==
    \A c \in Calls :
        Started(c) =>
            \/ call[c] = Alone(c)
            \/ /\ Alone(c).pc = "backoff"
               /\ call[c] = OnTimer(Alone(c), rev, env)

\* two calls suspended in the middle of their runs: one waits to retry, the
\* other awaits its fallback call
C10_Witness ==
    /\ call[1].pc = "backoff"
    /\ call[1].received # <<>>
    /\ call[2].pc = "awaitRemote"
    /\ call[2].cycle = "fallback"
    /\ Len(call[2].received) = 2

\* the environment of the process sets, replaces or removes API_KEY while
\* calls are in flight
EnvChanges ==
    /\ \E key \in ApiKeys : key # env /\ env' = key
    /\ UNCHANGED <<rev, service, call>>

NextEnv == Next \/ EnvChanges

SpecEnv == Init /\ [][NextEnv]_vars

---------------------------------------------------------------------------
(* C11 *)

\* C11: when every remote call returns, every call that was made settles;
\* a settled call keeps its one result, resolved with a data URL or rejected
\* with an error; and while a remote call is outstanding nothing but its
\* return moves the call (no timeout).
C11_SettlesExactlyOnce ==
    /\ \A c \in Calls : (call[c].pc = "start") ~> Settled(c)
    /\ [][\A c \in Calls : Settled(c) => call'[c] = call[c]]_vars
    /\ [][\A c \in Calls :
            Settled(c)' =>
                \/ /\ call'[c].result.kind = "resolved"
                   /\ DOMAIN call'[c].result = {"kind", "value"}
                \/ /\ call'[c].result.kind = "rejected"
                   /\ DOMAIN call'[c].result = {"kind", "error"}]_vars
    /\ [][\A c \in Calls :
            (call[c].pc = "awaitRemote" /\ call'[c] # call[c]) =>
                /\ Len(call'[c].received) = Len(call[c].received) + 1
                /\ call'[c].received[Len(call'[c].received)].outcome \in Answers(service)]_vars

\* a call that settled after a failed attempt, a delay and a second attempt
C11_Witness ==
    /\ Resolved(1)
    /\ call[1].delays = << 1500 >>
    /\ Len(call[1].received) = 2

---------------------------------------------------------------------------
(* C12 *)

\* the last outcome the primary cycle of call c received
LastOfPrimary(c) ==
    LET p == OfCycle(call[c].received, "primary") IN p[Len(p)]

PrimaryReceived(c) == OfCycle(call[c].received, "primary") # <<>>

\* C12: the fallback cycle starts only after a reply that the primary cycle
\* received; when the primary cycle ends on a remote error, whatever its
\* message, there is no fallback cycle and the call is rejected with that
\* error.
C12_ExecutorErrorNeverFallsBack ==
    \A c \in Calls :
        /\ "fallback" \in { call[c].invocations[k] : k \in 1..Len(call[c].invocations) } =>
               PrimaryReceived(c) /\ IsReply(LastOfPrimary(c))
        /\ (Settled(c) /\ PrimaryReceived(c) /\ IsError(LastOfPrimary(c))) =>
               /\ Rejected(c)
               /\ call[c].result.error.cycle = "primary"
               /\ call[c].result.error.message = LastOfPrimary(c).outcome.value.message

---------------------------------------------------------------------------
(* C13 *)

\* a reply without image whose text is absent, or does not name safety
IsUnexpectedTextOnly(response) ==
    /\ ~HasImage(response)
    /\ \/ ~Truthy(response.text)
       \/ ~includes(toLowerCase(response.text), MarkerSafety)

\* C13: a reply without image whose text is absent or does not contain
\* "safety" in any letter case never starts the fallback cycle, even when the
\* prompt has a decade token: the call is rejected after the one invocation
\* of the retry executor.
C13_UnexpectedTextNeverFallsBack ==
    \A c \in Calls :
        ( /\ PrimaryReceived(c)
          /\ IsReply(LastOfPrimary(c))
          /\ IsUnexpectedTextOnly(LastOfPrimary(c).outcome.value) ) =>
            /\ call[c].invocations = << "primary" >>
            /\ Rejected(c)

---------------------------------------------------------------------------
(* C14 *)

\* C14: a reply with no candidates surfaces directly: the call is rejected
\* and no fallback call is made after it, whatever the prompt contains.
C14_EmptyReplySurfaces ==
    \A c \in Calls :
        ( /\ PrimaryReceived(c)
          /\ IsReply(LastOfPrimary(c))
          /\ LastOfPrimary(c).outcome.value.candidates = <<>> ) =>
            /\ call[c].invocations = << "primary" >>
            /\ Rejected(c)
            /\ call[c].result.error.cycle = "primary"

---------------------------------------------------------------------------
(* C15 *)

\* in this step the awaited remote call of c returns
Receives(c) == Len(call'[c].received) = Len(call[c].received) + 1

\* what it returns, with the cycle and the attempt that receive it
Got(c) == call'[c].received[Len(call'[c].received)]

\* the step makes no further attempt in the invocation that received
NoFurtherAttempt(c) ==
    OfCycle(call'[c].requests, Got(c).cycle) = OfCycle(call[c].requests, Got(c).cycle)

\* the step leaves the invocation without a delay and without another attempt
EndsInvocation(c) ==
    /\ call'[c].delays = call[c].delays
    /\ call'[c].pc # "backoff"
    /\ NoFurtherAttempt(c)

\* the step starts the fallback cycle: attempt 1 of a second invocation
StartsFallback(c) ==
    /\ Got(c).cycle = "primary"
    /\ call'[c].invocations = << "primary", "fallback" >>
    /\ Len(call'[c].requests) = Len(call[c].requests) + 1
    /\ call'[c].requests[Len(call'[c].requests)].cycle = "fallback"
    /\ call'[c].requests[Len(call'[c].requests)].attempt = 1

\* the step rejects the call with the error of message m, thrown where the
\* outcome was received
RejectsWith(c, m) ==
    /\ Rejected(c)'
    /\ call'[c].result.error.message = m
    /\ call'[c].result.error.cycle = Got(c).cycle
    /\ call'[c].result.error.attempt = Got(c).attempt

---------------------------------------------------------------------------
(* C16 *)

\* C16: a delay is scheduled exactly when an attempt failed with a transient
\* error and attempts remain, and it lasts 1500 ms times the number of the
\* failed attempt; a reply schedules none; every delay is followed by the
\* next attempt of the same invocation.
C16_DelayIffTransientAndAttemptsRemain ==
    /\ [][\A c \in Calls :
            Receives(c) =>
                IF /\ IsError(Got(c))
                   /\ Got(c).outcome.value.class = "Transient"
                   /\ Got(c).attempt < maxRetries
                THEN /\ call'[c].delays = Append(call[c].delays, 1500 * Got(c).attempt)
                     /\ call'[c].pc = "backoff"
                ELSE /\ call'[c].delays = call[c].delays
                     /\ call'[c].pc # "backoff"]_vars
    /\ [][\A c \in Calls :
            (call[c].pc = "backoff" /\ call'[c] # call[c]) =>
                /\ call'[c].pc = "awaitRemote"
                /\ call'[c].delays = call[c].delays
                /\ Len(call'[c].requests) = Len(call[c].requests) + 1
                /\ call'[c].requests[Len(call'[c].requests)].cycle = call[c].cycle
                /\ call'[c].requests[Len(call'[c].requests)].attempt = call[c].attempt + 1]_vars

---------------------------------------------------------------------------
(* C17 *)

\* C17: when an attempt receives a reply, the invocation of the retry
\* executor ends with it: no delay and no further attempt of that invocation
\* follow.  A reply with an image resolves the call with that image, also
\* at attempt 2 after a failed attempt 1; a reply without image either
\* rejects the call or starts the fallback cycle at its attempt 1.
C17_ReplyEndsInvocation ==
    [][\A c \in Calls :
        (Receives(c) /\ IsReply(Got(c))) =>
            /\ EndsInvocation(c)
            /\ IF HasImage(Got(c).outcome.value)
               THEN /\ Resolved(c)'
                    /\ call'[c].result.value = ImageUrlOf(Got(c).outcome.value)
               ELSE \/ /\ Rejected(c)'
                       /\ call'[c].result.error.attempt = Got(c).attempt
                       /\ call'[c].result.error.cycle = Got(c).cycle
                    \/ StartsFallback(c)]_vars

\* attempt 1 failed with a server error and attempt 2 got the image
C17_Witness ==
    /\ Len(call[1].received) = 2
    /\ call[1].received[1].outcome = Outcome("error", Error500)
    /\ call[1].received[2].outcome = Outcome("reply", ReplyImage)
    /\ call[1].received[2].attempt = 2
    /\ Len(call[1].requests) = 2
    /\ Resolved(1)
    /\ call[1].result.value = ImageUrlOf(ReplyImage)

---------------------------------------------------------------------------
(* C18 *)

\* C18: every attempt builds its client with the credential the environment
\* holds at the time of that attempt, also when the credential was replaced
\* or removed since the previous attempt or cycle, and no attempt is issued
\* with an absent credential.
C18_AttemptUsesCurrentCredential ==
    [][\A c \in Calls :
        Len(call'[c].requests) = Len(call[c].requests) + 1 =>
            /\ call'[c].requests[Len(call'[c].requests)].apiKey = env
            /\ Truthy(call'[c].requests[Len(call'[c].requests)].apiKey)]_vars

---------------------------------------------------------------------------
(* C19 *)

\* mimeType and data are the two captures of url: an image type made of
\* "image/" and word characters, and all that follows ";base64,"
CapturedFrom(url, imagePart) ==
    /\ HasAt(imagePart.mimeType, <<"i", "m", "a", "g", "e", "/">>, 1)
    /\ \A j \in 1..Len(imagePart.mimeType) : imagePart.mimeType[j] # ";"
    /\ url = DataPrefix \o imagePart.mimeType \o Base64Marker \o imagePart.data

\* C19: every remote call of a call, at each attempt of either cycle, carries
\* the MIME type and the payload captured from the input data URL, unchanged;
\* the text is the prompt in the primary cycle, and in the fallback cycle it
\* is the fixed template around a decade token of the prompt.
C19_RequestsCarryCapturedImage ==
    \A c \in Calls : \A k \in 1..Len(call[c].requests) :
        LET request == call[c].requests[k]
        IN  /\ CapturedFrom(call[c].imageDataUrl, request.imagePart)
            /\ request.cycle = "primary" => request.text = call[c].prompt
            /\ request.cycle = "fallback" =>
                   \E i \in 1..Len(call[c].prompt) :
                       /\ TokenAt(call[c].prompt, i)
                       /\ request.text =
                              FallbackHead \o SubSeq(call[c].prompt, i, i + 4) \o
                                  (IF rev = "services" THEN FallbackTailServices
                                   ELSE FallbackTailPart)

\* two attempts of the primary cycle and two of the fallback cycle were made
C19_Witness ==
    /\ call[1].imageDataUrl = ValidPng
    /\ Len(call[1].requests) = 4
    /\ call[1].requests[2].cycle = "primary"
    /\ call[1].requests[4].cycle = "fallback"
    /\ call[1].requests[4].attempt = 2
    /\ call[1].requests[4].imagePart = [mimeType |-> <<"i", "m", "a", "g", "e", "/", "p", "n", "g">>, data |-> <<"Q", "U", "J", "D">>]

---------------------------------------------------------------------------
(* C20 *)

\* C20: the retry loop is left by the return of a reply or by the throw of
\* the error of an attempt, never by its loop test: no call is rejected with
\* the "Maximum retries reached" error, no attempt beyond the second is
\* made, and a delay is always followed by an attempt.
C20_MaximumRetriesUnreachable ==
    /\ \A c \in Calls :
           /\ call[c].attempt <= maxRetries
           /\ Rejected(c) =>
                  /\ call[c].result.error.kind # "MaxRetries"
                  /\ call[c].result.error.message # <<"M", "a", "x", "i", "m", "u", "m", " ", "r", "e", "t", "r", "i", "e", "s", " ", "r", "e", "a", "c", "h", "e", "d", " ", "f", "o", "r", " ", "G", "e", "m", "i", "n", "i", " ", "A", "P", "I", ".">>
           /\ call[c].pc = "backoff" => call[c].attempt < maxRetries

\* the last attempt failed with a server error and its error was thrown
C20_Witness ==
    /\ Rejected(1)
    /\ Len(call[1].received) = maxRetries
    /\ LastReceived(1).outcome = Outcome("error", Error500)
    /\ call[1].result.error.attempt = maxRetries
    /\ call[1].result.error.message = <<"5", "0", "0", " ", "I", "N", "T", "E", "R", "N", "A", "L">>

=============================================================================
